---- MODULE Spec2Model ----
(***************************************************************************)
(* Model of config_merger.py: the Deep Merger (update_dict_subkeys), the   *)
(* Template Resolver (replace_template_variables), the multi-source merge  *)
(* (merge / _reduce_data_sources) and the folder overlay (VariableOverlay).*)
(*                                                                         *)
(* A Python value is a pair <<tag, payload>>, x[1] its type and x[2] its   *)
(* content: none, int n, str (a sequence of one-character strings), list  *)
(* (a sequence of values), set (a set of hashable values) and dict (a     *)
(* sequence of <<key, value>> pairs in insertion order, keys being        *)
(* character sequences).  bool and float are not modelled.                *)
(* A call that raises is a result with exc = TRUE.                         *)
(***************************************************************************)
EXTENDS Integers, Sequences, FiniteSets, TLC

VARIABLES
    pc,         \* position of the caller: "ready", "returned", "raised", ...
    base,       \* update_dict_subkeys: the value of d as passed
    update,     \* update_dict_subkeys: the value of u as passed
    none_values_are_transparent,
    options,    \* the **options of the call (may carry metadata_key)
    d,          \* the object d after the call (modified in place)
    u,          \* the object u after the call (metadata popped in place)
    result,     \* the mapping update_dict_subkeys returned, as returned
    mapping,    \* replace_template_variables: the data argument as passed
    flat_parent_replacements,
    resolved,   \* the mapping replace_template_variables returned
    sources,    \* merge: the source descriptors, in the order given
    acc,        \* _reduce_data_sources: the accumulator of reduce
    merged,     \* _reduce_data_sources: the number of sources reduced so far
    files,      \* the fragment files under VariableOverlay._path
    get_data_cache,      \* lru_cache of _get_data: (folder, name) -> the cached object
    get_cache,           \* lru_cache of get: (names, include_sub_folders) -> the returned object
    first_loaded,        \* history: (folder, name) -> the content _get_data loaded
    names,               \* get: the argument of the last call
    include_sub_folders, \* get: the argument of the last call
    gets,       \* the number of get calls made
    writes      \* the number of times a fragment file was changed

vars == <<pc, base, update, none_values_are_transparent, options, d, u, result,
          mapping, flat_parent_replacements, resolved, sources, acc, merged,
          files, get_data_cache, get_cache, first_loaded, names,
          include_sub_folders, gets, writes>>

----------------------------------------------------------------------------
(* Python values *)

PyNone == <<"none", 0>>
PyInt(n) == <<"int", n>>
PyStr(s) == <<"str", s>>
PyList(s) == <<"list", s>>
PySet(S) == <<"set", S>>
PyDict(items) == <<"dict", items>>

EmptyDict == PyDict(<<>>)
EmptyList == PyList(<<>>)

\* Result of a call: the returned value, or exc = TRUE when it raised.
Returned(val) == [exc |-> FALSE, val |-> val]
Raised == [exc |-> TRUE, val |-> PyNone]

\* hash(x) succeeds for None, int and str; list, set and dict are unhashable.
hashable(x) == x[1] \in {"none", "int", "str"}

\* isinstance(v, collections.abc.Mapping)
is_mapping(x) == x[1] = "dict"

\* isinstance(v, collections.abc.Iterable) and not isinstance(v, str),
\* for a value that is not a Mapping
is_iterable_not_str(x) == x[1] \in {"list", "set"}

----------------------------------------------------------------------------
(* dict operations, on insertion-ordered items *)

has(dd, k) == \E i \in 1..Len(dd[2]) : dd[2][i][1] = k

index(dd, k) == CHOOSE i \in 1..Len(dd[2]) : dd[2][i][1] = k

\* dict.get(k, default)
get(dd, k, default) == IF has(dd, k) THEN dd[2][index(dd, k)][2] ELSE default

\* d[k] = val : an existing key keeps its position, a new key is appended
setitem(dd, k, val) ==
    IF has(dd, k)
    THEN PyDict([dd[2] EXCEPT ![index(dd, k)] = <<k, val>>])
    ELSE PyDict(Append(dd[2], <<k, val>>))

\* the dict left by d.pop(k, default)
delitem(dd, k) ==
    IF has(dd, k)
    THEN PyDict(SubSeq(dd[2], 1, index(dd, k) - 1) \o SubSeq(dd[2], index(dd, k) + 1, Len(dd[2])))
    ELSE dd

RECURSIVE dict_update(_, _, _)
\* {**a, **b}: b's entries override a's
dict_update(a, b, i) ==
    IF i > Len(b[2]) THEN a
    ELSE dict_update(setitem(a, b[2][i][1], b[2][i][2]), b, i + 1)

----------------------------------------------------------------------------
(* Strings are sequences of one-character strings *)

DEFAULT_METADATA_KEY ==
    <<"_", "_", "C", "O", "N", "F", "I", "G", "-", "M", "E", "R", "G", "E", "R",
      "-", "M", "E", "T", "A", "_", "_">>

option_metadata_key == <<"m", "e", "t", "a", "d", "a", "t", "a", "_", "k", "e", "y">>

s_concat == <<"c", "o", "n", "c", "a", "t">>
s_keep == <<"k", "e", "e", "p">>
s_replace == <<"r", "e", "p", "l", "a", "c", "e">>
s_and == <<"a", "n", "d">>
s_or == <<"o", "r">>

----------------------------------------------------------------------------
(* META_funcs['combine'] *)

RECURSIVE chars_of(_, _)
\* the elements of iterating a str: its characters, as one-character strs
chars_of(s, i) ==
    IF i > Len(s) THEN {} ELSE {PyStr(<<s[i]>>)} \cup chars_of(s, i + 1)

\* set(x): TRUE when it raises TypeError (x not iterable, or an unhashable element)
set_raises(x) ==
    \/ x[1] \in {"none", "int"}
    \/ x[1] = "list" /\ \E i \in 1..Len(x[2]) : ~hashable(x[2][i])

\* set(x) when it does not raise: the elements of a list or set, the
\* characters of a str, the keys of a dict
set_of(x) ==
    CASE x[1] = "list" -> {x[2][i] : i \in 1..Len(x[2])}
      [] x[1] = "set" -> x[2]
      [] x[1] = "str" -> chars_of(x[2], 1)
      [] x[1] = "dict" -> {PyStr(x[2][i][1]) : i \in 1..Len(x[2])}
      [] OTHER -> {}

\* 'concat': lambda a, b: a + b  (list + list; any other pair of operand
\* types reaching this point raises TypeError)
combine_concat(a, b) ==
    IF a[1] = "list" /\ b[1] = "list" THEN Returned(PyList(a[2] \o b[2])) ELSE Raised

\* a keep that returns the update operand
combine_keep_update(a, b) == Returned(b)

\* 'keep': lambda a, b: a
combine_keep(a, b) == Returned(a)

\* 'replace': lambda a, b: b
combine_replace(a, b) == Returned(b)

\* 'and': lambda a, b: set(a) & set(b)
combine_and(a, b) ==
    IF set_raises(a) \/ set_raises(b) THEN Raised
    ELSE Returned(PySet(set_of(a) \cap set_of(b)))

\* 'or': lambda a, b: set(a) | set(b)
combine_or(a, b) ==
    IF set_raises(a) \/ set_raises(b) THEN Raised
    ELSE Returned(PySet(set_of(a) \cup set_of(b)))

\* META_funcs['combine'][name](a, b); a name that is no key raises KeyError
\* (TypeError for an unhashable name)
META_funcs_combine(name, a, b) ==
    IF name[1] # "str" THEN Raised
    ELSE CASE name[2] = s_concat -> combine_concat(a, b)
           [] name[2] = s_keep -> combine_keep(a, b)
           [] name[2] = s_replace -> combine_replace(a, b)
           [] name[2] = s_and -> combine_and(a, b)
           [] name[2] = s_or -> combine_or(a, b)
           [] OTHER -> Raised

----------------------------------------------------------------------------
(* update_dict_subkeys *)

\* options.get('metadata_key', DEFAULT_METADATA_KEY)
metadata_key_of(opts) ==
    get(opts, option_metadata_key, PyStr(DEFAULT_METADATA_KEY))[2]

\* a metadata merge in which base's entries override update's
merged_meta_base_wins(md, mu) == dict_update(dict_update(EmptyDict, mu, 1), md, 1)

\* meta = {**d.pop(metadata_key, {}), **u.pop(metadata_key, {})}
merged_meta(md, mu) == dict_update(dict_update(EmptyDict, md, 1), mu, 1)

\* meta.get(k, 'concat')
strategy_for(meta, k) == get(meta, k, PyStr(s_concat))

\* the scalar branch's test: none_values_are_transparent and k in d and u[k] == None
skip_none(nvt, dd, k, v) == nvt /\ has(dd, k) /\ v[1] = "none"

\* the result of a call that modifies d and u in place: exc, and both objects
\* as the call leaves them
MergeState(exc, dd, uu) == [exc |-> exc, d |-> dd, u |-> uu]

RECURSIVE update_dict_subkeys(_, _, _, _)
RECURSIVE update_items(_, _, _, _, _, _)

\* the loop "for k, v in u.items()", from the i-th item on
update_items(dd, uu, i, meta, nvt, opts) ==
    IF i > Len(uu[2]) THEN MergeState(FALSE, dd, uu)
    ELSE
      LET k == uu[2][i][1]
          v == uu[2][i][2]
      IN
      IF is_mapping(v) THEN
          \* d[k] = update_dict_subkeys(d.get(k, {}), v, **options):
          \* none_values_are_transparent is a named parameter, so **options
          \* does not carry it and the nested call runs with its default
          LET r == update_dict_subkeys(get(dd, k, EmptyDict), v, FALSE, opts)
              u2 == setitem(uu, k, r.u)
          IN IF r.exc
             THEN MergeState(TRUE, IF has(dd, k) THEN setitem(dd, k, r.d) ELSE dd, u2)
             ELSE update_items(setitem(dd, k, r.d), u2, i + 1, meta, nvt, opts)
      ELSE IF is_iterable_not_str(v) THEN
          LET c == META_funcs_combine(strategy_for(meta, k), get(dd, k, EmptyList), v)
          IN IF c.exc
             THEN MergeState(TRUE, dd, uu)
             ELSE update_items(setitem(dd, k, c.val), uu, i + 1, meta, nvt, opts)
      ELSE IF skip_none(nvt, dd, k, v)
          THEN update_items(dd, uu, i + 1, meta, nvt, opts)
          ELSE update_items(setitem(dd, k, v), uu, i + 1, meta, nvt, opts)

\* update_dict_subkeys(d, u, none_values_are_transparent, **options): d is
\* modified in place and returned; the metadata key is popped from d and u
update_dict_subkeys(dd, uu, nvt, opts) ==
    LET metadata_key == metadata_key_of(opts) IN
    IF ~is_mapping(dd)
    THEN MergeState(TRUE, dd, uu)  \* d.pop(key, {}) on a non-dict: AttributeError / TypeError
    ELSE
      LET md == get(dd, metadata_key, EmptyDict)
          d1 == delitem(dd, metadata_key)
      IN
      IF ~is_mapping(md)
      THEN MergeState(TRUE, d1, uu)  \* ** of a value that is no mapping: TypeError
      ELSE
        LET mu == get(uu, metadata_key, EmptyDict)
            u1 == delitem(uu, metadata_key)
        IN
        IF ~is_mapping(mu)
        THEN MergeState(TRUE, d1, u1)
        ELSE update_items(d1, u1, 1, merged_meta(md, mu), nvt, opts)

----------------------------------------------------------------------------
(* str(), repr() *)

Digits == <<"0", "1", "2", "3", "4", "5", "6", "7", "8", "9">>

RECURSIVE digits_of(_)
\* the decimal digits of a natural number
digits_of(n) ==
    IF n < 10 THEN <<Digits[n + 1]>> ELSE digits_of(n \div 10) \o <<Digits[(n % 10) + 1]>>

int_str(n) == IF n < 0 THEN <<"-">> \o digits_of(0 - n) ELSE digits_of(n)

contains_char(s, c) == \E i \in 1..Len(s) : s[i] = c

RECURSIVE escaped(_, _)
\* s with a backslash before every backslash and every quote character q
escaped(s, q) ==
    IF s = <<>> THEN <<>>
    ELSE (IF Head(s) = q \/ Head(s) = "\\" THEN <<"\\", Head(s)>> ELSE <<Head(s)>>)
         \o escaped(Tail(s), q)

\* repr of a str of printable characters: double quotes when it holds a
\* single quote and no double quote, single quotes otherwise
str_repr(s) ==
    IF contains_char(s, "'") /\ ~contains_char(s, "\"")
    THEN <<"\"">> \o escaped(s, "\"") \o <<"\"">>
    ELSE <<"'">> \o escaped(s, "'") \o <<"'">>

RECURSIVE join(_, _)
\* sep.join(parts)
join(parts, sep) ==
    IF parts = <<>> THEN <<>>
    ELSE IF Len(parts) = 1 THEN parts[1]
    ELSE parts[1] \o sep \o join(Tail(parts), sep)

RECURSIVE set_order(_)
\* the elements of a set in an iteration order (Python fixes none; only a
\* call that then raises ever formats a set, see replace_items)
set_order(S) ==
    IF S = {} THEN <<>>
    ELSE LET x == CHOOSE y \in S : TRUE IN <<x>> \o set_order(S \ {x})

RECURSIVE repr(_)
\* repr(x)
repr(x) ==
    CASE x[1] = "none" -> <<"N", "o", "n", "e">>
      [] x[1] = "int" -> int_str(x[2])
      [] x[1] = "str" -> str_repr(x[2])
      [] x[1] = "list" ->
            <<"[">> \o join([i \in 1..Len(x[2]) |-> repr(x[2][i])], <<",", " ">>) \o <<"]">>
      [] x[1] = "dict" ->
            <<"{">>
            \o join([i \in 1..Len(x[2]) |->
                        str_repr(x[2][i][1]) \o <<":", " ">> \o repr(x[2][i][2])],
                    <<",", " ">>)
            \o <<"}">>
      [] x[1] = "set" ->
            IF x[2] = {} THEN <<"s", "e", "t", "(", ")">>
            ELSE LET o == set_order(x[2])
                 IN <<"{">> \o join([i \in 1..Len(o) |-> repr(o[i])], <<",", " ">>) \o <<"}">>

\* str(x): a str is itself, anything else its repr
str(x) == IF x[1] = "str" THEN x[2] ELSE repr(x)

----------------------------------------------------------------------------
(* REGEX_TEMPLATE_VAR, TEMPLATE_REPLACEMENT, str.replace *)

\* the least j such that \${(.+?)} matches s[i..j], or 0 when it does not
\* match at i: "${", one or more characters, and the first "}" after them
match_end(s, i) ==
    IF /\ i + 3 <= Len(s)
       /\ s[i] = "$"
       /\ s[i + 1] = "{"
       /\ \E j \in (i + 3)..Len(s) : s[j] = "}"
    THEN CHOOSE j \in (i + 3)..Len(s) :
            /\ s[j] = "}"
            /\ \A h \in (i + 3)..(j - 1) : s[h] # "}"
    ELSE 0

RECURSIVE findall(_, _)
\* REGEX_TEMPLATE_VAR.findall(value): the names of the tokens, left to
\* right, matches not overlapping
findall(s, i) ==
    IF i > Len(s) THEN <<>>
    ELSE LET j == match_end(s, i)
         IN IF j = 0 THEN findall(s, i + 1)
            ELSE <<SubSeq(s, i + 2, j - 1)>> \o findall(s, j + 1)

\* TEMPLATE_REPLACEMENT % token
TEMPLATE_REPLACEMENT(token) == <<"$", "{">> \o token \o <<"}">>

RECURSIVE str_replace(_, _, _, _)
\* value.replace(old, new) for a non-empty old: every occurrence, left to
\* right, occurrences not overlapping
str_replace(s, old, new, i) ==
    IF i > Len(s) THEN <<>>
    ELSE IF i + Len(old) - 1 <= Len(s) /\ SubSeq(s, i, i + Len(old) - 1) = old
    THEN new \o str_replace(s, old, new, i + Len(old))
    ELSE <<s[i]>> \o str_replace(s, old, new, i + 1)

----------------------------------------------------------------------------
(* replace_template_variables *)

\* One map of the ChainMap an enclosing call passed down: the mapping, and
\* (for an enclosing call's data) the key whose value is being resolved.
\* That value is the same object as the mapping one level nearer.
Scope(data, key) == [data |-> data, key |-> key, enclosing |-> TRUE]

\* the flat_parent_replacements of the outermost call
ParentScope(parent) == [data |-> parent, key |-> <<>>, enclosing |-> FALSE]

\* a lookup result: found, and the value
Found(val) == [found |-> TRUE, val |-> val]
NotFound == [found |-> FALSE, val |-> PyNone]

RECURSIVE chain_lookup(_, _, _, _)
\* the first map, nearest first, that has the key; nearer is the current
\* content of the mapping one level nearer than chain[i]
chain_lookup(token, nearer, chain, i) ==
    IF i > Len(chain) THEN NotFound
    ELSE LET f == chain[i]
             live == IF f.enclosing THEN setitem(f.data, f.key, nearer) ELSE f.data
         IN IF has(live, token) THEN Found(get(live, token, PyNone))
            ELSE chain_lookup(token, live, chain, i + 1)

\* a lookup that consults the enclosing scopes before the mapping itself
chain_get_outer_first(data, chain, token) ==
    LET r == chain_lookup(token, data, chain, 1)
    IN IF r.found THEN r.val
       ELSE IF has(data, token) THEN get(data, token, PyNone)
       ELSE PyStr(<<>>)

\* data_chain.get(token, '') with data_chain = ChainMap(data, flat_parent_replacements)
chain_get(data, chain, token) ==
    IF has(data, token) THEN get(data, token, PyNone)
    ELSE LET r == chain_lookup(token, data, chain, 1)
         IN IF r.found THEN r.val ELSE PyStr(<<>>)

RECURSIVE replace_tokens(_, _, _, _, _)
\* for token in findall(value): value = value.replace('${token}', str(lookup))
replace_tokens(value, tokens, i, data, chain) ==
    IF i > Len(tokens) THEN value
    ELSE replace_tokens(
            str_replace(value, TEMPLATE_REPLACEMENT(tokens[i]),
                        str(chain_get(data, chain, tokens[i])), 1),
            tokens, i + 1, data, chain)

\* _replace_template(value): a str with its tokens replaced, any other value as it is
replace_template(value, data, chain) ==
    IF value[1] = "str"
    THEN PyStr(replace_tokens(value[2], findall(value[2], 1), 1, data, chain))
    ELSE value

\* the result of a call that modifies data in place
ResolveState(exc, data) == [exc |-> exc, data |-> data]

RECURSIVE replace_template_variables(_, _)
RECURSIVE replace_items(_, _, _)

\* the loop "for k, v in data.items()", from the i-th item on
replace_items(data, chain, i) ==
    IF i > Len(data[2]) THEN ResolveState(FALSE, data)
    ELSE
      LET k == data[2][i][1]
          v == data[2][i][2]
      IN
      IF v[1] = "str"
      THEN replace_items(setitem(data, k, replace_template(v, data, chain)), chain, i + 1)
      ELSE IF is_mapping(v) THEN
          LET r == replace_template_variables(v, <<Scope(data, k)>> \o chain)
          IN IF r.exc THEN ResolveState(TRUE, setitem(data, k, r.data))
             ELSE replace_items(setitem(data, k, r.data), chain, i + 1)
      ELSE IF is_iterable_not_str(v) THEN
          \* v[:] = list(map(_replace_template, v)): a set has no slice
          \* assignment and raises TypeError
          IF v[1] # "list" THEN ResolveState(TRUE, data)
          ELSE replace_items(
                  setitem(data, k,
                          PyList([j \in 1..Len(v[2]) |-> replace_template(v[2][j], data, chain)])),
                  chain, i + 1)
      ELSE replace_items(data, chain, i + 1)

\* replace_template_variables(data, flat_parent_replacements): data is
\* modified in place and returned
replace_template_variables(data, chain) == replace_items(data, chain, 1)

----------------------------------------------------------------------------
(* _load_data_from_source, _reduce_data_sources, merge *)

\* A source descriptor: a mapping in memory, or an inline literal "{...}"
\* with the mapping json.loads makes of it.  Paths and URLs belong to the
\* Source Loader and are not modelled.
InMemory(content) == [kind |-> "mapping", content |-> content]
Inline(content) == [kind |-> "inline", content |-> content]

\* _load_data_from_source(source): "assert source" fails for an empty
\* mapping in memory (an inline literal is a non-empty str)
load_data_from_source(source) ==
    IF source.kind = "mapping" /\ source.content = EmptyDict
    THEN Raised
    ELSE Returned(source.content)

\* a reduce step that merges the accumulator into the source
reduce_step_reversed(a, source, nvt, opts) ==
    LET l == load_data_from_source(source)
    IN IF l.exc THEN Raised
       ELSE LET r == update_dict_subkeys(l.val, a, nvt, opts)
            IN IF r.exc THEN Raised ELSE Returned(r.d)

\* lambda acc, source: update_dict_subkeys(acc, _load_data_from_source(source), **options)
reduce_step(a, source, nvt, opts) ==
    LET l == load_data_from_source(source)
    IN IF l.exc THEN Raised
       ELSE LET r == update_dict_subkeys(a, l.val, nvt, opts)
            IN IF r.exc THEN Raised ELSE Returned(r.d)

----------------------------------------------------------------------------
(* VariableOverlay *)

DEFAULT_FILENAME == "_default"

\* CURRENT_FOLDER = ('', )
CURRENT_FOLDER == <<"">>

\* os.path.exists(filename) is false
Absent == <<"absent", 0>>

\* an argument of get: a tuple of names, or a single str
PyTuple(s) == <<"tuple", s>>
Name(s) == <<"name", s>>

\* if isinstance(x, str): x = (x, )
as_tuple(x) == IF x[1] = "name" THEN <<x[2]>> ELSE x[2]

RECURSIVE fragment_order(_, _, _, _)
\* "for folder in include_sub_folders: for name in names", from the i-th
\* folder and the j-th name on: the (folder, name) pairs in the order of the loop
fragment_order(folders, ns, i, j) ==
    IF i > Len(folders) THEN <<>>
    ELSE IF j > Len(ns) THEN fragment_order(folders, ns, i + 1, 1)
    ELSE << <<folders[i], ns[j]>> >> \o fragment_order(folders, ns, i, j + 1)

\* the state of one get call: the accumulator, the cache of _get_data and
\* the history of what _get_data loaded
OverlayState(exc, data, cache, loaded) ==
    [exc |-> exc, data |-> data, cache |-> cache, loaded |-> loaded]

\* _get_data(folder, name) on a cache miss: the file's content, {} if absent
get_data(fs, key) == IF fs[key] = Absent THEN EmptyDict ELSE fs[key]

RECURSIVE overlay_loop(_, _, _, _, _, _)
\* update_dict_subkeys(data, self._get_data(folder, name)) for the i-th pair
\* on: a cache hit hands out the cached object itself, and the merge pops
\* the metadata from that object
overlay_loop(pairs, i, data, cache, loaded, fs) ==
    IF i > Len(pairs) THEN OverlayState(FALSE, data, cache, loaded)
    ELSE
      LET key == pairs[i]
          hit == key \in DOMAIN cache
          fragment == IF hit THEN cache[key] ELSE get_data(fs, key)
          loaded2 == IF hit THEN loaded ELSE (key :> fragment) @@ loaded
          r == update_dict_subkeys(data, fragment, FALSE, EmptyDict)
          cache2 == (key :> r.u) @@ cache
      IN IF r.exc THEN OverlayState(TRUE, r.d, cache2, loaded2)
         ELSE overlay_loop(pairs, i + 1, r.d, cache2, loaded2, fs)

\* the body of VariableOverlay.get
overlay_get(ns, subs, cache, loaded, fs) ==
    overlay_loop(fragment_order(CURRENT_FOLDER \o as_tuple(subs),
                                <<DEFAULT_FILENAME>> \o as_tuple(ns), 1, 1),
                 1, EmptyDict, cache, loaded, fs)

----------------------------------------------------------------------------
(* Inputs of the Deep Merger *)

MaxDepth == 1

kA == <<"a">>
kB == <<"b">>
kP == <<"p">>
custom_key == <<"m", "k">>

Strategies == {s_concat, s_keep, s_replace, s_and, s_or}

\* the **options a caller passes: none, or a metadata_key of its own
OptionChoices == {EmptyDict, PyDict(<< <<option_metadata_key, PyStr(custom_key)>> >>)}

\* a metadata mapping {k: strategy}
MetaOf(k, s) == PyDict(<< <<k, PyStr(s)>> >>)

MetaChoices == {MetaOf(kA, s) : s \in Strategies} \cup {MetaOf(kB, s_and)}

\* a sequence holding a mapping that carries metadata of its own
ListWithMapping(mk) ==
    PyList(<< PyDict(<< <<kB, PyInt(1)>>, <<mk, MetaOf(kB, s_keep)>> >>) >>)

MergeVals(mk) ==
    { PyNone, PyInt(1), PyStr(<<"x">>),
      PyList(<<PyInt(1), PyInt(2)>>), PyList(<<PyInt(2), PyInt(3), PyInt(2)>>),
      ListWithMapping(mk),
      PyDict(<< <<kB, PyInt(2)>> >>) }

\* mappings with an optional key 'a' and an optional metadata entry
LevelMaps(mk) ==
    {EmptyDict}
    \cup {PyDict(<< <<kA, v>> >>) : v \in MergeVals(mk)}
    \cup {PyDict(<< <<mk, m>> >>) : m \in MetaChoices}
    \cup {PyDict(<< <<kA, v>>, <<mk, m>> >>) : v \in MergeVals(mk), m \in MetaChoices}

RECURSIVE Wrap(_, _)
\* m nested n levels deep under key 'p'
Wrap(n, m) == IF n = 0 THEN m ELSE PyDict(<< <<kP, Wrap(n - 1, m)>> >>)

\* base or update: a mapping of LevelMaps at any depth up to MaxDepth
MergeInput(x, key) == \E n \in 0..MaxDepth : \E m \in LevelMaps(key) : x = Wrap(n, m)

----------------------------------------------------------------------------
(* The Deep Merger as called by a client *)

mergerVars == <<base, update, none_values_are_transparent, options, d, u, result>>

resolverVars == <<mapping, flat_parent_replacements, resolved>>

sourceVars == <<sources, acc, merged>>

overlayVars == <<files, get_data_cache, get_cache, first_loaded, names,
                 include_sub_folders, gets, writes>>

\* no merge in progress
NoSources == sources = <<>> /\ acc = EmptyDict /\ merged = 0

\* no VariableOverlay constructed
NoOverlay ==
    /\ files = <<>>
    /\ get_data_cache = <<>>
    /\ get_cache = <<>>
    /\ first_loaded = <<>>
    /\ names = <<>>
    /\ include_sub_folders = <<>>
    /\ gets = 0
    /\ writes = 0

InitMerger ==
    /\ pc = "ready"
    /\ options \in OptionChoices
    /\ none_values_are_transparent \in BOOLEAN
    /\ MergeInput(base, metadata_key_of(options))
    /\ MergeInput(update, metadata_key_of(options))
    /\ d = base
    /\ u = update
    /\ result = PyNone
    /\ mapping = PyNone
    /\ flat_parent_replacements = EmptyDict
    /\ resolved = PyNone
    /\ NoSources
    /\ NoOverlay

\* result = update_dict_subkeys(d, u, none_values_are_transparent, **options)
DeepMerge ==
    /\ pc = "ready"
    /\ LET r == update_dict_subkeys(d, u, none_values_are_transparent, options)
       IN /\ d' = r.d
          /\ u' = r.u
          /\ pc' = IF r.exc THEN "raised" ELSE "returned"
          /\ result' = IF r.exc THEN PyNone ELSE r.d
    /\ UNCHANGED <<base, update, none_values_are_transparent, options>>
    /\ UNCHANGED resolverVars
    /\ UNCHANGED sourceVars
    /\ UNCHANGED overlayVars

\* replace_template_variables(update_dict_subkeys(A, B)), as merge does with
\* the mapping it has reduced its sources to
ResolveMerged ==
    /\ pc = "returned"
    /\ mapping' = result
    /\ flat_parent_replacements' = EmptyDict
    /\ LET r == replace_template_variables(result, <<ParentScope(EmptyDict)>>)
       IN /\ pc' = IF r.exc THEN "resolve_raised" ELSE "resolved"
          /\ resolved' = IF r.exc THEN PyNone ELSE r.data
    /\ UNCHANGED mergerVars
    /\ UNCHANGED sourceVars
    /\ UNCHANGED overlayVars

NextMerger == DeepMerge \/ ResolveMerged

Spec == InitMerger /\ [][NextMerger]_vars

----------------------------------------------------------------------------
(* Properties of the Deep Merger *)

mk == metadata_key_of(options)

RECURSIVE py_eq(_, _)
\* Python's ==: dicts compare without regard to insertion order
py_eq(x, y) ==
    /\ x[1] = y[1]
    /\ CASE x[1] = "dict" ->
              /\ Len(x[2]) = Len(y[2])
              /\ \A i \in 1..Len(x[2]) :
                    /\ has(y, x[2][i][1])
                    /\ py_eq(x[2][i][2], get(y, x[2][i][1], PyNone))
         [] x[1] = "list" ->
              /\ Len(x[2]) = Len(y[2])
              /\ \A i \in 1..Len(x[2]) : py_eq(x[2][i], y[2][i])
         [] OTHER -> x = y

RECURSIVE HasMetadata(_, _)
\* x, or a mapping nested in x through mapping values, has the key
HasMetadata(x, key) ==
    /\ is_mapping(x)
    /\ \/ has(x, key)
       \/ \E i \in 1..Len(x[2]) : HasMetadata(x[2][i][2], key)

\* C1: the mapping returned by update_dict_subkeys has the reserved metadata
\* key in none of its mappings, at the top level or nested.
C1_NoMetadataInResult == pc = "returned" => ~HasMetadata(result, mk)

\* the strategy the claim names for k: update's metadata entry, otherwise
\* base's, otherwise concat
NamedStrategy(b, up, k, key) ==
    LET mu == get(up, key, EmptyDict)
        mb == get(b, key, EmptyDict)
    IN IF has(mu, k) THEN mu[2][index(mu, k)][2][2]
       ELSE IF has(mb, k) THEN mb[2][index(mb, k)][2][2]
       ELSE s_concat

Elements(l) == {l[2][i] : i \in 1..Len(l[2])}

\* what the claim says strategy s gives for the sequences bl and ul
Combined(s, bl, ul) ==
    CASE s = s_concat -> PyList(bl[2] \o ul[2])
      [] s = s_keep -> bl
      [] s = s_replace -> ul
      [] s = s_and -> PySet({x \in Elements(bl) : x \in Elements(ul)})
      [] s = s_or -> PySet(Elements(bl) \cup Elements(ul))

RECURSIVE SequenceRule(_, _, _, _)
\* in the call merging up into b with result res, and in every nested call it
\* makes on two mappings, each sequence-valued key of up whose base value is
\* absent or a sequence holds the combination the named strategy gives
SequenceRule(b, up, res, key) ==
    \A i \in 1..Len(up[2]) :
        LET k == up[2][i][1]
            v == up[2][i][2]
        IN k # key =>
            /\ (v[1] = "list" /\ get(b, k, EmptyList)[1] = "list") =>
                  /\ has(res, k)
                  /\ get(res, k, PyNone)
                        = Combined(NamedStrategy(b, up, k, key), get(b, k, EmptyList), v)
            /\ (is_mapping(v) /\ is_mapping(get(b, k, EmptyDict))) =>
                  /\ has(res, k)
                  /\ is_mapping(get(res, k, PyNone))
                  /\ SequenceRule(get(b, k, EmptyDict), v, get(res, k, PyNone), key)

\* C2: for every sequence-valued key k of update, result[k] is the
\* combination of base.get(k, []) and update[k] under the strategy named for
\* k (update's metadata, else base's, else concat).
C2_SequenceStrategy == pc = "returned" => SequenceRule(base, update, result, mk)

\* C2's case: both sides hold a sequence at 'a', base names keep and update
\* names and, and the result is the intersection
C2_Witness ==
    /\ pc = "returned"
    /\ get(base, kA, PyNone)[1] = "list"
    /\ get(update, kA, PyNone)[1] = "list"
    /\ get(base, mk, EmptyDict) = MetaOf(kA, s_keep)
    /\ get(update, mk, EmptyDict) = MetaOf(kA, s_and)
    /\ get(result, kA, PyNone) = PySet({PyInt(2)})

RECURSIVE NullRule(_, _, _, _, _)
\* in the call merging up into b, and in every nested call on two mappings:
\* a null in up at a key b has keeps b's value when nvt, overwrites it otherwise
NullRule(b, up, res, nvt, key) ==
    \A i \in 1..Len(up[2]) :
        LET k == up[2][i][1]
            v == up[2][i][2]
        IN k # key =>
            /\ (v = PyNone /\ has(b, k)) =>
                  /\ has(res, k)
                  /\ get(res, k, EmptyDict) = (IF nvt THEN get(b, k, EmptyDict) ELSE PyNone)
            /\ (is_mapping(v) /\ has(b, k) /\ is_mapping(get(b, k, PyNone))) =>
                  /\ has(res, k)
                  /\ is_mapping(get(res, k, PyNone))
                  /\ NullRule(get(b, k, PyNone), v, get(res, k, PyNone), nvt, key)

\* C3: with none_values_are_transparent a null in update keeps the base value
\* of an existing key, in the call and in its recursive calls at any depth;
\* without the option the null overwrites.
C3_NullTransparency ==
    pc = "returned" => NullRule(base, update, result, none_values_are_transparent, mk)

\* C4: update_dict_subkeys never raises on well-formed mappings, and a mapping
\* in update over a non-mapping in base gives the merge of {} with it.
C4_Total ==
    /\ pc # "raised"
    /\ pc = "returned" =>
          \A i \in 1..Len(update[2]) :
              LET k == update[2][i][1]
                  v == update[2][i][2]
              IN (k # mk /\ is_mapping(v) /\ has(base, k) /\ ~is_mapping(get(base, k, PyNone))) =>
                    get(result, k, PyNone) = update_dict_subkeys(EmptyDict, v, FALSE, options).d

RECURSIVE Stripped(_, _)
\* x without the metadata key, in x and in the mappings nested in it
Stripped(x, key) ==
    IF ~is_mapping(x) THEN x
    ELSE LET y == delitem(x, key)
         IN PyDict([i \in 1..Len(y[2]) |-> <<y[2][i][1], Stripped(y[2][i][2], key)>>])

\* C5 as stated: merge(copy(A), {}) equals A, and merge({}, B) equals B with
\* its metadata keys stripped, whatever strategy B's metadata names.
C5_EmptyIsIdentity ==
    /\ (pc # "ready" /\ update = EmptyDict) => (pc # "raised" /\ py_eq(result, base))
    /\ (pc # "ready" /\ base = EmptyDict) =>
          (pc # "raised" /\ py_eq(result, Stripped(update, mk)))

RECURSIVE MergedIntoEmpty(_, _)
\* what merging up into an empty mapping gives: up without its metadata key,
\* nested mappings likewise, and each sequence-valued key as its strategy
\* combines an empty sequence with it
MergedIntoEmpty(up, key) ==
    LET y == delitem(up, key)
        OneKey(k, v) ==
            IF is_mapping(v) THEN MergedIntoEmpty(v, key)
            ELSE IF v[1] = "list" THEN
                LET s == NamedStrategy(EmptyDict, up, k, key)
                IN IF s \in {s_and, s_or} /\ \E x \in Elements(v) : ~hashable(x)
                   THEN Raised
                   ELSE Returned(CASE s \in {s_concat, s_replace} -> v
                                   [] s = s_keep -> EmptyList
                                   [] s = s_and -> PySet({})
                                   [] s = s_or -> PySet(Elements(v)))
            ELSE Returned(v)
    IN IF \E i \in 1..Len(y[2]) : OneKey(y[2][i][1], y[2][i][2]).exc
       THEN Raised
       ELSE Returned(PyDict([i \in 1..Len(y[2]) |->
                                <<y[2][i][1], OneKey(y[2][i][1], y[2][i][2]).val>>]))

\* C5 (amended): merge(copy(A), {}) is A without its top-level metadata key;
\* merge({}, B) is B without metadata keys where B's sequences are under
\* concat or replace, with keep giving an empty sequence, and an empty set,
\* or the set of the elements, and and/or raising on an unhashable element.
C5_EmptyMerge ==
    /\ (pc # "ready" /\ update = EmptyDict) =>
          (pc # "raised" /\ result = delitem(base, mk))
    /\ (pc # "ready" /\ base = EmptyDict) =>
          LET e == MergedIntoEmpty(update, mk)
          IN /\ e.exc <=> pc = "raised"
             /\ ~e.exc => result = e.val

\* C5's case: an empty base merged with a B that names keep for its sequence
C5_Witness ==
    /\ pc = "returned"
    /\ base = EmptyDict
    /\ get(update, mk, EmptyDict) = MetaOf(kA, s_keep)
    /\ get(update, kA, PyNone) = PyList(<<PyInt(1), PyInt(2)>>)
    /\ result = PyDict(<< <<kA, EmptyList>> >>)

\* C10: replace_template_variables(update_dict_subkeys(A, B)) returns for all
\* well-formed A and B, also when and/or combined a sequence into a set; the
\* non-string elements of a sequence value are left as they are.
C10_ResolverTotal ==
    /\ pc # "resolve_raised"
    /\ pc = "resolved" =>
          \A i \in 1..Len(result[2]) :
              LET v == result[2][i][2]
                  r == resolved[2][i][2]
              IN v[1] = "list" =>
                    /\ r[1] = "list"
                    /\ Len(r[2]) = Len(v[2])
                    /\ \A j \in 1..Len(v[2]) : v[2][j][1] # "str" => r[2][j] = v[2][j]

----------------------------------------------------------------------------
(* Inputs of the Template Resolver *)

kT == <<"t">>
kC == <<"c">>

Tok(name) == <<"$", "{">> \o name \o <<"}">>

Templates ==
    { Tok(kA),
      Tok(kA) \o <<" ">> \o Tok(kB),
      <<"x">> \o Tok(<<"c", ".", "a">>),
      Tok(<<"z", "z">>) \o Tok(kB) }

\* an optional entry
Entry(k, v) == IF v = <<>> THEN <<>> ELSE << <<k, v[1]>> >>

\* the innermost mapping: optional 'a' and 'b', and a template at 't', as a
\* string or as an element of a sequence, before or after the other keys
LeafMaps ==
    { PyDict(IF first THEN Entry(kT, <<t>>) \o Entry(kA, va) \o Entry(kB, vb)
                      ELSE Entry(kA, va) \o Entry(kB, vb) \o Entry(kT, <<t>>)) :
        first \in BOOLEAN,
        va \in {<<>>, <<PyStr(<<"X">>)>>, <<PyInt(1)>>, <<PyStr(Tok(kB))>>},
        vb \in {<<>>, <<PyStr(<<"Z">>)>>},
        t \in {PyStr(x) : x \in Templates}
              \cup {PyList(<<PyStr(x), PyInt(7)>>) : x \in Templates} }

\* an enclosing mapping: optional 'a' and 'b' of its own, and the nested
\* mapping at 'c', before or after them
Enclose(child, e) ==
    PyDict(IF e.first THEN Entry(kC, <<child>>) \o Entry(kA, e.va) \o Entry(kB, e.vb)
                      ELSE Entry(kA, e.va) \o Entry(kB, e.vb) \o Entry(kC, <<child>>))

Enclosings ==
    [first : BOOLEAN,
     va : {<<>>, <<PyStr(<<"O">>)>>, <<PyStr(Tok(kB))>>, <<PyStr(Tok(<<"c", ".", "a">>))>>},
     vb : {<<>>, <<PyStr(<<"Y">>)>>}]

RECURSIVE Nested(_, _, _)
\* leaf enclosed n times, es[n] outermost
Nested(leaf, es, n) ==
    IF n = 0 THEN leaf ELSE Enclose(Nested(leaf, es, n - 1), es[n])

\* data: a leaf mapping with the template at any depth up to MaxDepth
ResolverInput(x) ==
    \E n \in 0..MaxDepth : \E leaf \in LeafMaps : \E es \in [1..n -> Enclosings] :
        x = Nested(leaf, es, n)

ParentChoices ==
    { EmptyDict,
      PyDict(<< <<kA, PyStr(Tok(kB))>>, <<kB, PyStr(<<"P">>)>> >>) }

----------------------------------------------------------------------------
(* The Template Resolver as called by a client *)

InitResolver ==
    /\ pc = "ready"
    /\ ResolverInput(mapping)
    /\ flat_parent_replacements \in ParentChoices
    /\ resolved = PyNone
    /\ base = EmptyDict
    /\ update = EmptyDict
    /\ none_values_are_transparent = FALSE
    /\ options = EmptyDict
    /\ d = EmptyDict
    /\ u = EmptyDict
    /\ result = PyNone
    /\ NoSources
    /\ NoOverlay

\* resolved = replace_template_variables(mapping, flat_parent_replacements)
ResolveTemplates ==
    /\ pc = "ready"
    /\ LET r == replace_template_variables(mapping, <<ParentScope(flat_parent_replacements)>>)
       IN /\ pc' = IF r.exc THEN "raised" ELSE "returned"
          /\ resolved' = IF r.exc THEN PyNone ELSE r.data
    /\ UNCHANGED <<mapping, flat_parent_replacements>>
    /\ UNCHANGED mergerVars
    /\ UNCHANGED sourceVars
    /\ UNCHANGED overlayVars

NextResolver == ResolveTemplates

SpecResolver == InitResolver /\ [][NextResolver]_vars

----------------------------------------------------------------------------
(* Properties of the Template Resolver *)

\* s holds old as a substring
contains_str(s, old) ==
    \E i \in 1..(Len(s) - Len(old) + 1) : SubSeq(s, i, i + Len(old) - 1) = old

\* the value the lookup of name finds while key k of the outermost mapping is
\* being resolved: keys before k are already resolved, k and the keys after
\* it are as passed, the parent namespace is never changed
LookedUp(k, name) ==
    IF has(mapping, name)
    THEN IF index(mapping, name) < index(mapping, k)
         THEN get(resolved, name, PyNone) ELSE get(mapping, name, PyNone)
    ELSE get(flat_parent_replacements, name, PyStr(<<>>))

\* C6: substituted text is never scanned again: a token inside a looked-up
\* value appears literally in the output.
C6_SinglePass ==
    pc = "returned" =>
        \A i \in 1..Len(mapping[2]) :
            LET k == mapping[2][i][1]
                v == mapping[2][i][2]
                tokens == findall(v[2], 1)
            IN v[1] = "str" =>
                  \A n \in 1..Len(tokens) :
                      LET inner == findall(str(LookedUp(k, tokens[n])), 1)
                      IN \A m \in 1..Len(inner) :
                            contains_str(get(resolved, k, PyNone)[2], Tok(inner[m]))

RECURSIVE ScopeLookup(_, _, _)
\* the claim's lookup: the value of the exact key in the nearest mapping of
\* the scope chain that has it, an empty string when none has
ScopeLookup(name, scopes, i) ==
    IF i > Len(scopes) THEN PyStr(<<>>)
    ELSE IF \E j \in 1..Len(scopes[i][2]) : scopes[i][2][j][1] = name
    THEN LET j == CHOOSE h \in 1..Len(scopes[i][2]) : scopes[i][2][h][1] = name
         IN scopes[i][2][j][2]
    ELSE ScopeLookup(name, scopes, i + 1)

RECURSIVE Substituted(_, _, _)
\* s from position i on with every token replaced by its stringified lookup,
\* in one pass
Substituted(s, i, scopes) ==
    IF i > Len(s) THEN <<>>
    ELSE LET j == match_end(s, i)
         IN IF j = 0 THEN <<s[i]>> \o Substituted(s, i + 1, scopes)
            ELSE str(ScopeLookup(SubSeq(s, i + 2, j - 1), scopes, 1))
                 \o Substituted(s, j + 1, scopes)

\* every "$" of s begins a token, token names hold none of "$", "{", "}",
\* and no looked-up value holds a "$" when stringified
PlainTemplate(s, scopes) ==
    /\ \A i \in 1..Len(s) : s[i] = "$" => match_end(s, i) # 0
    /\ LET tokens == findall(s, 1)
       IN \A n \in 1..Len(tokens) :
             /\ ~contains_char(tokens[n], "$")
             /\ ~contains_char(tokens[n], "{")
             /\ ~contains_char(tokens[n], "}")
             /\ ~contains_char(str(ScopeLookup(tokens[n], scopes, 1)), "$")

\* the string value v of a mapping with the given scope chain became r
StringRule(v, r, scopes) ==
    (v[1] = "str" /\ PlainTemplate(v[2], scopes)) =>
        r = PyStr(Substituted(v[2], 1, scopes))

RECURSIVE ScopeRule(_, _, _)
\* in mapping m (as passed) with result res and the enclosing scopes outer
\* (as passed, nearest first), and in every mapping nested in it: each
\* string value and each string element of a sequence value has its tokens
\* replaced by the nearest-first lookup
ScopeRule(m, res, outer) ==
    /\ res[1] = "dict"
    /\ Len(res[2]) = Len(m[2])
    /\ \A i \in 1..Len(m[2]) :
          LET v == m[2][i][2]
              r == res[2][i][2]
          IN /\ res[2][i][1] = m[2][i][1]
             /\ StringRule(v, r, <<m>> \o outer)
             /\ v[1] = "list" =>
                   /\ r[1] = "list"
                   /\ Len(r[2]) = Len(v[2])
                   /\ \A j \in 1..Len(v[2]) : StringRule(v[2][j], r[2][j], <<m>> \o outer)
             /\ v[1] = "dict" => ScopeRule(v, r, <<m>> \o outer)

\* C7: each token is replaced by the stringified value of its exact key in
\* the nearest mapping of the scope chain that has it, and by the empty
\* string when none has; an inner key shadows an outer one.
C7_ScopeChain ==
    pc = "returned" => ScopeRule(mapping, resolved, <<flat_parent_replacements>>)

\* C7's case: a template nested under 'c' names 'a' and 'c.a'; its own
\* mapping has 'a', the enclosing mapping has another 'a', the parent
\* namespace a third: the inner one is used, the dotted name gives nothing
C7_Witness ==
    /\ pc = "returned"
    /\ has(flat_parent_replacements, kA)
    /\ get(mapping, kA, PyNone) = PyStr(<<"O">>)
    /\ get(get(mapping, kC, EmptyDict), kA, PyNone) = PyInt(1)
    /\ get(get(mapping, kC, EmptyDict), kT, PyNone) = PyStr(<<"x">> \o Tok(<<"c", ".", "a">>))
    /\ get(get(resolved, kC, EmptyDict), kT, PyNone) = PyStr(<<"x">>)

----------------------------------------------------------------------------
(* merge: the sources reduced in order, then resolved *)

MaxSources == 2

kD == <<"d">>

a_is == <<"a", " ", "i", "s", " ">>

\* the pieces of merge's doctest: 'a' a scalar, 'b' a sequence (with or
\* without a strategy named for it), 'c' a mapping holding a template
SourceMaps ==
    { PyDict(Entry(kA, va) \o Entry(kB, vb) \o Entry(kC, vc)) :
        va \in {<<>>, <<PyInt(1)>>, <<PyInt(5)>>, <<PyNone>>},
        vb \in {<<>>, <<PyList(<<PyInt(2)>>)>>, <<PyList(<<PyInt(999)>>)>>},
        vc \in {<<>>, <<PyDict(<< <<kD, PyStr(a_is \o Tok(kA))>> >>)>>} }
    \cup
    { PyDict(Entry(kA, va) \o << <<kB, PyList(<<PyInt(999)>>)>>,
                                 <<DEFAULT_METADATA_KEY, MetaOf(kB, s_replace)>> >>) :
        va \in {<<>>, <<PyInt(1)>>, <<PyInt(5)>>, <<PyNone>>} }

\* '{"a": 1, "b": [2], "c": {"d": "a is ${a}"}}'
DoctestFirst ==
    Inline(PyDict(<< <<kA, PyInt(1)>>, <<kB, PyList(<<PyInt(2)>>)>>,
                     <<kC, PyDict(<< <<kD, PyStr(a_is \o Tok(kA))>> >>)>> >>))

\* {'a': 5, 'b': [999]}
DoctestSecond ==
    InMemory(PyDict(<< <<kA, PyInt(5)>>, <<kB, PyList(<<PyInt(999)>>)>> >>))

SourceChoices ==
    {InMemory(m) : m \in SourceMaps} \cup {Inline(EmptyDict), DoctestFirst}

InitSources ==
    /\ pc = "reducing"
    /\ \E n \in 0..MaxSources : sources \in [1..n -> SourceChoices]
    /\ none_values_are_transparent \in BOOLEAN
    /\ options = EmptyDict
    /\ acc = EmptyDict
    /\ merged = 0
    /\ resolved = PyNone
    /\ mapping = PyNone
    /\ flat_parent_replacements = EmptyDict
    /\ base = EmptyDict
    /\ update = EmptyDict
    /\ d = EmptyDict
    /\ u = EmptyDict
    /\ result = PyNone
    /\ NoOverlay

\* one step of reduce(lambda acc, source: ..., sources, {})
ReduceSource ==
    /\ pc = "reducing"
    /\ merged < Len(sources)
    /\ LET r == reduce_step(acc, sources[merged + 1], none_values_are_transparent, options)
       IN IF r.exc
          THEN pc' = "raised" /\ UNCHANGED <<acc, merged>>
          ELSE pc' = "reducing" /\ acc' = r.val /\ merged' = merged + 1
    /\ UNCHANGED <<sources, none_values_are_transparent, options, base, update, d, u, result>>
    /\ UNCHANGED resolverVars
    /\ UNCHANGED overlayVars

\* merge's return: replace_template_variables of the reduced accumulator
ResolveReduced ==
    /\ pc = "reducing"
    /\ merged = Len(sources)
    /\ LET r == replace_template_variables(acc, <<ParentScope(EmptyDict)>>)
       IN /\ pc' = IF r.exc THEN "raised" ELSE "returned"
          /\ resolved' = IF r.exc THEN PyNone ELSE r.data
    /\ UNCHANGED <<mapping, flat_parent_replacements>>
    /\ UNCHANGED mergerVars
    /\ UNCHANGED sourceVars
    /\ UNCHANGED overlayVars

NextSources == ReduceSource \/ ResolveReduced

SpecSources == InitSources /\ [][NextSources]_vars

----------------------------------------------------------------------------
(* Properties of merge *)

RECURSIVE FoldSources(_)
\* the left-to-right fold of the Deep Merger over the first n loaded
\* sources, starting from an empty mapping
FoldSources(n) ==
    IF n = 0 THEN EmptyDict
    ELSE update_dict_subkeys(FoldSources(n - 1), sources[n].content,
                             none_values_are_transparent, options).d

\* the sources that set key k at the top level
Setters(k) == {i \in 1..Len(sources) : has(sources[i].content, k)}

Set(i, k) == get(sources[i].content, k, PyNone)

Min(S) == CHOOSE i \in S : \A j \in S : i <= j

Max(S) == CHOOSE i \in S : \A j \in S : i >= j

\* the setters whose value is written: with none_values_are_transparent a
\* None is written only where the key is not there yet
Writers(k) ==
    IF none_values_are_transparent
    THEN {i \in Setters(k) : i = Min(Setters(k)) \/ Set(i, k) # PyNone}
    ELSE Setters(k)

ScalarKey(k) ==
    /\ Setters(k) # {}
    /\ \A i \in Setters(k) : Set(i, k)[1] \in {"none", "int"}

\* no source names a strategy for k and every source sets k to a sequence
SequenceKey(k) ==
    /\ Setters(k) # {}
    /\ \A i \in Setters(k) : Set(i, k)[1] = "list"
    /\ \A i \in 1..Len(sources) :
          ~has(get(sources[i].content, DEFAULT_METADATA_KEY, EmptyDict), k)

RECURSIVE Accumulated(_, _)
\* the sequences the first n sources give for k, concatenated in source order
Accumulated(k, n) ==
    IF n = 0 THEN <<>>
    ELSE Accumulated(k, n - 1)
         \o (IF n \in Setters(k) THEN Set(n, k)[2] ELSE <<>>)

\* C8: merge(source_1, ..., source_n) is the Template Resolver applied once
\* to the left-to-right fold of the Deep Merger over the loaded sources from
\* an empty mapping: a scalar key has the value of the last source that
\* writes it, sequences accumulate in source order, and every token is
\* resolved against the final merged values, whichever source the template
\* came from (the doctest of merge included).
C8_MergeIsResolvedFold ==
    pc = "returned" =>
        /\ acc = FoldSources(Len(sources))
        /\ resolved = replace_template_variables(FoldSources(Len(sources)),
                                                 <<ParentScope(EmptyDict)>>).data
        /\ \A k \in {kA, kB, kC} :
              /\ ScalarKey(k) => get(resolved, k, EmptyDict) = Set(Max(Writers(k)), k)
              /\ SequenceKey(k) =>
                    get(resolved, k, PyNone) = PyList(Accumulated(k, Len(sources)))
        /\ ScopeRule(acc, resolved, <<EmptyDict>>)
        /\ sources = <<DoctestFirst, DoctestSecond>> =>
              resolved = PyDict(<< <<kA, PyInt(5)>>,
                                   <<kB, PyList(<<PyInt(2), PyInt(999)>>)>>,
                                   <<kC, PyDict(<< <<kD, PyStr(a_is \o <<"5">>)>> >>)>> >>)

\* a template of the first source is resolved with the scalar the last
\* source wrote, and the sequences of both sources have accumulated
C8_Witness ==
    /\ pc = "returned"
    /\ Len(sources) = 2
    /\ has(sources[1].content, kC)
    /\ ~has(sources[2].content, kC)
    /\ Set(1, kA) = PyInt(1)
    /\ Set(2, kA) = PyInt(5)
    /\ get(resolved, kC, EmptyDict) = PyDict(<< <<kD, PyStr(a_is \o <<"5">>)>> >>)
    /\ SequenceKey(kB)
    /\ Len(get(resolved, kB, EmptyList)[2]) = 2

----------------------------------------------------------------------------
(* VariableOverlay: a sequence of get calls on one instance *)

MaxGets == 2

MaxWrites == 1

Folders == {"", "s"}

FileNames == {DEFAULT_FILENAME, "p", "q"}

FragmentKeys == Folders \X FileNames

OneList(k, n) == PyDict(<< <<k, PyList(<<PyInt(n)>>)>> >>)

WithMeta(m, k, s) == PyDict(m[2] \o << <<DEFAULT_METADATA_KEY, MetaOf(k, s)>> >>)

\* the contents each fragment file may have; a file not named here is absent
FileChoices(key) ==
    IF key = <<"", DEFAULT_FILENAME>> THEN {Absent, OneList(kA, 1)}
    ELSE IF key = <<"", "p">>
    THEN {Absent, OneList(kA, 2), WithMeta(OneList(kA, 2), kA, s_replace)}
    ELSE IF key = <<"s", "p">>
    THEN {Absent, OneList(kA, 4),
          PyDict(<< <<kC, OneList(kA, 3)>> >>),
          PyDict(<< <<kC, WithMeta(OneList(kA, 3), kA, s_keep)>> >>)}
    ELSE {Absent}

NamesChoices == {PyTuple(<<>>), PyTuple(<<"p">>), PyTuple(<<"p", "q">>), Name("p")}

SubFolderChoices == {PyTuple(<<>>), PyTuple(<<"s">>), Name("s")}

InitOverlay ==
    /\ pc = "constructed"
    /\ files \in {f \in [FragmentKeys -> UNION {FileChoices(k) : k \in FragmentKeys}] :
                    \A k \in FragmentKeys : f[k] \in FileChoices(k)}
    /\ get_data_cache = <<>>
    /\ get_cache = <<>>
    /\ first_loaded = <<>>
    /\ names = PyTuple(<<>>)
    /\ include_sub_folders = PyTuple(<<>>)
    /\ gets = 0
    /\ writes = 0
    /\ result = PyNone
    /\ base = EmptyDict
    /\ update = EmptyDict
    /\ none_values_are_transparent = FALSE
    /\ options = EmptyDict
    /\ d = EmptyDict
    /\ u = EmptyDict
    /\ mapping = PyNone
    /\ flat_parent_replacements = EmptyDict
    /\ resolved = PyNone
    /\ NoSources

\* result = overlay.get(names, include_sub_folders): the cached object of
\* an earlier call with equal arguments, or the body of get
Get ==
    /\ gets < MaxGets
    /\ \E ns \in NamesChoices, subs \in SubFolderChoices :
          /\ names' = ns
          /\ include_sub_folders' = subs
          /\ IF <<ns, subs>> \in DOMAIN get_cache
             THEN /\ result' = get_cache[<<ns, subs>>]
                  /\ pc' = "returned"
                  /\ UNCHANGED <<get_data_cache, get_cache, first_loaded>>
             ELSE LET r == overlay_get(ns, subs, get_data_cache, first_loaded, files)
                  IN /\ get_data_cache' = r.cache
                     /\ first_loaded' = r.loaded
                     /\ pc' = IF r.exc THEN "raised" ELSE "returned"
                     /\ result' = IF r.exc THEN PyNone ELSE r.data
                     /\ get_cache' = IF r.exc THEN get_cache
                                     ELSE (<<ns, subs>> :> r.data) @@ get_cache
    /\ gets' = gets + 1
    /\ UNCHANGED <<files, writes>>
    /\ UNCHANGED <<base, update, none_values_are_transparent, options, d, u>>
    /\ UNCHANGED resolverVars
    /\ UNCHANGED sourceVars

\* the environment changes, creates or removes a fragment file
WriteFile ==
    /\ writes < MaxWrites
    /\ \E key \in FragmentKeys : \E content \in FileChoices(key) :
          /\ content # files[key]
          /\ files' = [files EXCEPT ![key] = content]
    /\ writes' = writes + 1
    /\ UNCHANGED <<pc, get_data_cache, get_cache, first_loaded, names,
                   include_sub_folders, gets>>
    /\ UNCHANGED mergerVars
    /\ UNCHANGED resolverVars
    /\ UNCHANGED sourceVars

NextOverlay == Get \/ WriteFile

SpecOverlay == InitOverlay /\ [][NextOverlay]_vars

----------------------------------------------------------------------------
(* Properties of VariableOverlay *)

RECURSIVE FragmentFold(_, _, _)
\* the Deep-Merger fold, from data, over the contents first loaded for the
\* pairs from the i-th on
FragmentFold(pairs, i, data) ==
    IF i > Len(pairs) THEN data
    ELSE FragmentFold(pairs, i + 1,
            update_dict_subkeys(data, first_loaded[pairs[i]], FALSE, EmptyDict).d)

\* C9: every get(names, include_sub_folders) returns the Deep-Merger fold,
\* from an empty mapping, over the fragments folder-major and name-minor
\* (_default first), each fragment with the content, metadata included, that
\* was first loaded for it, whatever get calls came before.
C9_GetIsFoldOfLoaded ==
    pc = "returned" =>
        result = FragmentFold(
                    fragment_order(CURRENT_FOLDER \o as_tuple(include_sub_folders),
                                   <<DEFAULT_FILENAME>> \o as_tuple(names), 1, 1),
                    1, EmptyDict)

====
